---------------------------- MODULE Spec2Model ----------------------------
(***************************************************************************)
(* A model of optimizer.py, the G-code optimizer for SketchUCam output:    *)
(* the command classes, the geometry helpers and the three passes          *)
(* RemoveDuplicates, RemoveRedundant and RemoveRepeat, run one by one or    *)
(* chained as main() chains them.                                          *)
(*                                                                         *)
(* Indices are 0-based as in the source: At(s, k) is Python's s[k].        *)
(* An exception that escapes a pass is recorded in err and stops the run   *)
(* (pc = "failed"), as an uncaught Python exception does.                  *)
(***************************************************************************)
EXTENDS Integers, Sequences, FiniteSets, TLC

VARIABLES
    mode,              \* the entry point called: a pass's run(), or main()
    input,             \* the command list handed to the entry point
    commands,          \* the list the current pass works on
    pc,                \* the pass (and the part of it) about to run
    err,               \* "" or the name of the uncaught exception
    i,                 \* RemoveRedundant.run's cursor i
    duplicate_ranges,  \* RemoveRepeat.run's set of (start, end) pairs
    todo               \* what is left of sorted(duplicate_ranges, reverse=True)

vars == <<mode, input, commands, pc, err, i, duplicate_ranges, todo>>

---------------------------------------------------------------------------
(* Bounds of the model: the longest input of each specification.           *)
MaxLenDup == 4
MaxLenRed == 5
MaxLenRep == 6
MaxLenOverlap == 7
MaxLenMain == 5

---------------------------------------------------------------------------
(* Python values.                                                          *)

\* An attribute that may be None: {} is None, {v} is the number v.
None == {}
Some(v) == {v}
Val(o) == CHOOSE v \in o : TRUE

At(s, k) == s[k + 1]

\* s[a:b] for 0 <= a, b <= len(s)
Slice(s, a, b) == SubSeq(s, a + 1, b)

\* A text is a string, kept as the sequence of its characters, and a
\* character as its code point: "G0 X1" is <<71, 48, 32, 88, 49>>.

\* The characters chr(32) .. chr(95), and chr(97) .. chr(126)
Printable ==
    <<" ", "!", "\"", "#", "$", "%", "&", "'", "(", ")", "*", "+", ",", "-", ".", "/",
      "0", "1", "2", "3", "4", "5", "6", "7", "8", "9", ":", ";", "<", "=", ">", "?",
      "@", "A", "B", "C", "D", "E", "F", "G", "H", "I", "J", "K", "L", "M", "N", "O",
      "P", "Q", "R", "S", "T", "U", "V", "W", "X", "Y", "Z", "[", "\\", "]", "^", "_">>

PrintableFrom97 ==
    <<"a", "b", "c", "d", "e", "f", "g", "h", "i", "j", "k", "l", "m", "n", "o", "p",
      "q", "r", "s", "t", "u", "v", "w", "x", "y", "z", "{", "|", "}", "~">>

\* The code point of each of them
CodePoint ==
    [c \in {Printable[k] : k \in 1..Len(Printable)}
            \cup {PrintableFrom97[k] : k \in 1..Len(PrintableFrom97)} |->
        IF \E k \in 1..Len(Printable) : Printable[k] = c
        THEN 31 + (CHOOSE k \in 1..Len(Printable) : Printable[k] = c)
        ELSE 96 + (CHOOSE k \in 1..Len(PrintableFrom97) : PrintableFrom97[k] = c)]

ord(c) == CodePoint[c]

\* The string that is written as the characters s[1], s[2], ...
Text(s) == [k \in 1..Len(s) |-> ord(s[k])]

IsDigit(c) == c \in ord("0")..ord("9")

\* The number a string of decimal digits writes
RECURSIVE Natural(_)
Natural(digits) ==
    IF digits = <<>> THEN 0
    ELSE 10 * Natural(SubSeq(digits, 1, Len(digits) - 1))
         + (digits[Len(digits)] - ord("0"))

\* The decimal digits of n >= 0, and str(n) of an int n
RECURSIVE Digits(_)
Digits(n) ==
    IF n < 10 THEN <<ord("0") + n>> ELSE Append(Digits(n \div 10), ord("0") + (n % 10))

Numeral(n) == IF n < 0 THEN Text(<<"-">>) \o Digits(-n) ELSE Digits(n)

\* float(s) for a string s that writes a whole number: a sign or none,
\* digits, and a point with zeros or none ("1", "01", "+1", "1.", "1.0").
\* The numbers of the model are whole; on any other string the model has
\* no value (TLC stops with an error).
float(s) ==
    LET signed == s # <<>> /\ Head(s) \in {ord("+"), ord("-")}
        unsigned == IF signed THEN Tail(s) ELSE s
        points == {k \in 1..Len(unsigned) : unsigned[k] = ord(".")}
        point == IF points = {} THEN Len(unsigned) + 1
                 ELSE CHOOSE k \in points : \A m \in points : k <= m
        whole == SubSeq(unsigned, 1, point - 1)
        fraction == SubSeq(unsigned, point + 1, Len(unsigned))
    IN  CASE /\ Len(whole) + Len(fraction) > 0
             /\ \A k \in 1..Len(whole) : IsDigit(whole[k])
             /\ \A k \in 1..Len(fraction) : fraction[k] = ord("0")
             -> (IF signed /\ Head(s) = ord("-") THEN -1 ELSE 1) * Natural(whole)

\* "{}".format(v) of a float v that is a whole number: "1.0", "-2.0"
format(v) == Numeral(v) \o Text(<<".", "0">>)

\* The characters that str.split() takes for blanks, those c with
\* c.isspace(): the controls \t \n \v \f \r and chr(28) .. chr(31), the
\* space, and the line and space separators beyond ASCII.
Whitespace ==
    (9..13) \cup (28..32) \cup {133, 160, 5760} \cup (8192..8202)
        \cup {8232, 8233, 8239, 8287, 12288}

\* s.split(): the words of s, what its blanks separate
RECURSIVE split(_)
split(s) ==
    IF s = <<>> THEN <<>>
    ELSE IF Head(s) \in Whitespace THEN split(Tail(s))
    ELSE LET blanks == {k \in 1..Len(s) : s[k] \in Whitespace}
             stop == IF blanks = {} THEN Len(s) + 1
                     ELSE CHOOSE k \in blanks : \A m \in blanks : k <= m
         IN  <<SubSeq(s, 1, stop - 1)>> \o split(SubSeq(s, stop, Len(s)))

\* " ".join(words)
RECURSIVE join(_)
join(words) ==
    IF words = <<>> THEN <<>>
    ELSE IF Len(words) = 1 THEN words[1]
    ELSE words[1] \o Text(<<" ">>) \o join(Tail(words))

\* The token of an axis letter and a number written as an int: "X1"
Tok(a, v) == Text(<<a>>) \o Numeral(v)

\* "({})".format(text)
Parenthesized(text) == Text(<<"(">>) \o text \o Text(<<")">>)

---------------------------------------------------------------------------
(* The command classes.                                                    *)

\* GAbsoluteMove._get_axis: the number of the first token that starts with
\* the axis letter, None when there is none.
_get_axis(text, axis) ==
    LET tokens == split(text)
        hits == {k \in 1..Len(tokens) : tokens[k][1] = ord(axis)}
    IN  IF hits = {} THEN None
        ELSE Some(float(Tail(tokens[CHOOSE k \in hits : \A m \in hits : k <= m])))

\* The classes without coordinates (GCodeComment, GAbsolute, GToMillimeters,
\* GNoToolLengthOffset) have no x, y, z attribute: the fields are None here
\* and every read of them is guarded by HasAxes.
GCodeCommand(kind, line_number, text) ==
    [kind |-> kind, line_number |-> line_number, text |-> text,
     x |-> None, y |-> None, z |-> None]

GCodeComment(line_number, text) == GCodeCommand("GCodeComment", line_number, text)

GAbsolute(line_number, text) == GCodeCommand("GAbsolute", line_number, text)

GAbsoluteMove(line_number, text) ==
    [kind |-> "GAbsoluteMove", line_number |-> line_number, text |-> text,
     x |-> _get_axis(text, "X"),
     y |-> _get_axis(text, "Y"),
     z |-> _get_axis(text, "Z")]

\* isinstance(c, GAbsoluteMove): the only class with x, y and z
HasAxes(c) == c.kind = "GAbsoluteMove"

has_three_points(c) ==
    HasAxes(c) /\ c.x # None /\ c.y # None /\ c.z # None

\* GAbsoluteMove.__eq__ with the coordinates ignoring X: a plausible slip.
EqMoveNoX(a, b) ==
    HasAxes(b) /\ a.y = b.y /\ a.z = b.z

\* GAbsoluteMove.__eq__(a, b): None (false) unless b is a move too
EqMove(a, b) ==
    HasAxes(b) /\ a.x = b.x /\ a.y = b.y /\ a.z = b.z

\* a == b as Python dispatches it: the left operand's __eq__ (the classes
\* are siblings, so the reflected method never takes over).
Eq(a, b) ==
    IF HasAxes(a) THEN EqMove(a, b) ELSE a.text = b.text

\* to_comments
to_comments(cs) ==
    [k \in 1..Len(cs) |-> GCodeComment(cs[k].line_number, Parenthesized(cs[k].text))]

---------------------------------------------------------------------------
(* RemoveDuplicates.                                                       *)

\* The loop of RemoveDuplicates.run from the k-th command on; last_command
\* is the command before it (None before the first: None == command is
\* false).
RECURSIVE RemoveDuplicatesFrom(_, _, _)
RemoveDuplicatesFrom(cs, k, new_commands) ==
    IF k >= Len(cs) THEN new_commands
    ELSE IF k > 0 /\ Eq(At(cs, k - 1), At(cs, k))
         THEN RemoveDuplicatesFrom(cs, k + 1, new_commands)
         ELSE RemoveDuplicatesFrom(cs, k + 1, Append(new_commands, At(cs, k)))

\* A slip: drop a command equal to ANY earlier command, not only the one
\* immediately before it.
RemoveDuplicatesAnyEarlier(cs) ==
    LET keep == {k \in 1..Len(cs) : \A m \in 1..(k - 1) : ~Eq(cs[m], cs[k])}
        F[k \in 0..Len(cs)] ==
            IF k = 0 THEN <<>>
            ELSE IF k \in keep THEN Append(F[k - 1], cs[k]) ELSE F[k - 1]
    IN  F[Len(cs)]

RemoveDuplicates_run(cs) == RemoveDuplicatesFrom(cs, 0, <<>>)

---------------------------------------------------------------------------
(* Floats.  A float of Python is an IEEE double: a sign s, and for a       *)
(* number other than 0 a significand m of Precision bits and an exponent   *)
(* e, the number being s * m * 2^e.  The significand does not fit TLC's    *)
(* integers, so it is kept in two limbs of 29 bits.                        *)

Abs(n) == IF n < 0 THEN -n ELSE n

Radix == 2^29

\* h * Radix + l, for numbers below 2^58
Wide(n) == [h |-> n \div Radix, l |-> n % Radix]

\* 2 * w + bit
Twice(w, bit) ==
    LET low == 2 * w.l + bit
    IN  [h |-> 2 * w.h + low \div Radix, l |-> low % Radix]

Odd(w) == w.l % 2 = 1

Below(u, w) == u.h < w.h \/ (u.h = w.h /\ u.l < w.l)

Plus(u, w) ==
    LET low == u.l + w.l
    IN  [h |-> u.h + w.h + low \div Radix, l |-> low % Radix]

\* u - w for u >= w
Minus(u, w) ==
    IF u.l >= w.l THEN [h |-> u.h - w.h, l |-> u.l - w.l]
    ELSE [h |-> u.h - w.h - 1, l |-> u.l + Radix - w.l]

\* w * 2^k
Raised(w, k) ==
    IF k >= 29 THEN [h |-> w.l * 2^(k - 29), l |-> 0]
    ELSE [h |-> w.h * 2^k + w.l \div 2^(29 - k), l |-> (w.l % 2^(29 - k)) * 2^k]

\* w \div 2^k, with the lowest bit set when a bit that was shifted out was
\* set (the sticky bit of a rounding)
Lowered(w, k) ==
    LET q == IF k >= 58 THEN Wide(0)
             ELSE IF k >= 29 THEN [h |-> 0, l |-> w.h \div 2^(k - 29)]
             ELSE [h |-> w.h \div 2^k, l |-> w.l \div 2^k + (w.h % 2^k) * 2^(29 - k)]
        lost == IF k >= 58 THEN w # Wide(0)
                ELSE IF k >= 29 THEN w.h % 2^(k - 29) # 0 \/ w.l # 0
                ELSE w.l % 2^k # 0
    IN  IF lost /\ ~Odd(q) THEN Plus(q, Wide(1)) ELSE q

\* The bits of a double's significand
Precision == 53

\* The least significand of Precision bits
Least == Raised(Wide(1), Precision - 1)

Zero == [s |-> 0, e |-> 0, m |-> Wide(0)]

\* The double s * m * 2^e, for a rounded significand m, which may have
\* reached 2^Precision
Double(s, e, m) ==
    IF Below(m, Twice(Least, 0)) THEN [s |-> s, e |-> e, m |-> m]
    ELSE [s |-> s, e |-> e + 1, m |-> Lowered(m, 1)]

RECURSIVE BitLength(_)
BitLength(n) == IF n = 0 THEN 0 ELSE 1 + BitLength(n \div 2)

\* The double of a whole number
FromInt(n) ==
    IF n = 0 THEN Zero
    ELSE LET k == Precision - BitLength(Abs(n))
         IN  [s |-> IF n < 0 THEN -1 ELSE 1, e |-> -k, m |-> Raised(Wide(Abs(n)), k)]

\* The digits of n to the base 4, the first first
RECURSIVE Quaternary(_)
Quaternary(n) == IF n = 0 THEN <<>> ELSE Append(Quaternary(n \div 4), n % 4)

\* One bit of a square root taken digit by digit: p is the root so far, r
\* the remainder, digits what is left of the number, left the bits to come.
\* With nothing left of the number and no remainder the other bits are 0.
SqrtStep(st) ==
    LET pair == IF st.digits = <<>> THEN 0 ELSE Head(st.digits)
        r == Twice(Twice(st.r, pair \div 2), pair % 2)
        t == Twice(Twice(st.p, 0), 1)
        less == Below(r, t)
    IN  IF st.digits = <<>> /\ st.r = Wide(0)
        THEN [p |-> Raised(st.p, st.left), r |-> st.r, digits |-> <<>>, left |-> 0]
        ELSE [p |-> Twice(st.p, IF less THEN 0 ELSE 1),
              r |-> IF less THEN r ELSE Minus(r, t),
              digits |-> IF st.digits = <<>> THEN <<>> ELSE Tail(st.digits),
              left |-> st.left - 1]

\* At most `turns` steps
RECURSIVE SqrtSteps(_, _)
SqrtSteps(st, turns) ==
    IF st.left = 0 \/ turns = 0 THEN st ELSE SqrtSteps(SqrtStep(st), turns - 1)

\* math.sqrt(n) of a whole number n >= 0: the square root rounded to the
\* nearest double.
sqrt(n) ==
    IF n = 0 THEN Zero
    ELSE LET digits == Quaternary(n)
             start == [p |-> Wide(0), r |-> Wide(0), digits |-> digits, left |-> Precision]
             root == SqrtSteps(SqrtSteps(SqrtSteps(SqrtSteps(start, 14), 14), 14), 14)
         IN  Double(1, Len(digits) - Precision,
                    IF Below(root.p, root.r) THEN Plus(root.p, Wide(1)) ELSE root.p)

\* One bit of a long division by m: q is the quotient so far, r the
\* remainder.  With no remainder the other bits are 0.
QuotientStep(st) ==
    LET r == Twice(st.r, 0)
        less == Below(r, st.m)
    IN  IF st.r = Wide(0)
        THEN [q |-> Raised(st.q, st.left), r |-> st.r, m |-> st.m, left |-> 0]
        ELSE [q |-> Twice(st.q, IF less THEN 0 ELSE 1),
              r |-> IF less THEN r ELSE Minus(r, st.m),
              m |-> st.m,
              left |-> st.left - 1]

RECURSIVE QuotientSteps(_, _)
QuotientSteps(st, turns) ==
    IF st.left = 0 \/ turns = 0 THEN st ELSE QuotientSteps(QuotientStep(st), turns - 1)

\* n / d for a whole number n and a double d # 0: the quotient rounded to
\* the nearest double, to the even one of two that are as near.
Quotient(n, d) ==
    IF n = 0 THEN Zero
    ELSE LET up == FromInt(Abs(n))
             k == IF Below(up.m, d.m) THEN 1 - up.e ELSE -up.e
             r == IF Below(up.m, d.m) THEN Twice(up.m, 0) ELSE up.m
             start == [q |-> Wide(1), r |-> Minus(r, d.m), m |-> d.m,
                       left |-> Precision - 1]
             end == QuotientSteps(QuotientSteps(QuotientSteps(QuotientSteps(
                        start, 14), 14), 14), 14)
             twice == Twice(end.r, 0)
             more == Below(d.m, twice) \/ (twice = d.m /\ Odd(end.q))
         IN  Double(IF n < 0 THEN -d.s ELSE d.s, -k - (Precision - 1) - d.e,
                    IF more THEN Plus(end.q, Wide(1)) ELSE end.q)

\* x + y for doubles x, y >= 0, rounded as the quotient is
Sum(x, y) ==
    IF x.s = 0 THEN y
    ELSE IF y.s = 0 THEN x
    ELSE LET big == IF x.e >= y.e THEN x ELSE y
             small == IF x.e >= y.e THEN y ELSE x
             sum == Plus(Raised(big.m, 3), Lowered(Raised(small.m, 3), big.e - small.e))
             carry == ~Below(sum, Raised(Least, 4))
             kept == IF carry THEN Lowered(sum, 1) ELSE sum
             m == [h |-> kept.h \div 8, l |-> kept.l \div 8 + (kept.h % 8) * 2^26]
             rest == kept.l % 8
             more == rest > 4 \/ (rest = 4 /\ Odd(m))
         IN  Double(1, big.e + (IF carry THEN 1 ELSE 0),
                    IF more THEN Plus(m, Wide(1)) ELSE m)

\* x > y for doubles, x >= 0
Exceeds(x, y) ==
    IF y.s < 0 THEN TRUE
    ELSE IF y.s = 0 THEN x.s > 0
    ELSE x.s > 0 /\ (x.e > y.e \/ (x.e = y.e /\ Below(y.m, x.m)))

---------------------------------------------------------------------------
(* Geometry.  The coordinates are whole numbers, so differences, squares    *)
(* and their sums are exact; the square root, the quotients and the sums   *)
(* of lengths are rounded.                                                 *)

\* (p1.x - p2.x)**2 + (p1.y - p2.y)**2 + (p1.z - p2.z)**2
DistSq(p1, p2) ==
    LET dx == Val(p1.x) - Val(p2.x)
        dy == Val(p1.y) - Val(p2.y)
        dz == Val(p1.z) - Val(p2.z)
    IN  dx * dx + dy * dy + dz * dz

distance(p1, p2) == sqrt(DistSq(p1, p2))

\* The loop of total_distance from points[k] on, total the sum so far
RECURSIVE TotalFrom(_, _, _)
TotalFrom(points, k, total) ==
    IF k >= Len(points) - 1 THEN total
    ELSE TotalFrom(points, k + 1, Sum(total, distance(At(points, k), At(points, k + 1))))

\* total_distance of points that all have three coordinates
total_distance(points) == TotalFrom(points, 0, Zero)

\* length > n for a double length >= 0 and a whole number n
Greater(length, n) == Exceeds(length, FromInt(n))

\* slope(p1, p2) for p1 # p2
slope(p1, p2) ==
    LET d == distance(p1, p2)
    IN  <<Quotient(Val(p1.x) - Val(p2.x), d),
          Quotient(Val(p1.y) - Val(p2.y), d),
          Quotient(Val(p1.z) - Val(p2.z), d)>>

\* redundant(p1, p2, p3): "True", "False", or the exception slope raises
\* when it divides by a distance of 0.0.
redundant(p1, p2, p3) ==
    IF has_three_points(p1) /\ has_three_points(p2) /\ has_three_points(p3)
    THEN IF DistSq(p1, p2) = 0 \/ DistSq(p1, p3) = 0 THEN "ZeroDivisionError"
         ELSE IF slope(p1, p2) = slope(p1, p3) THEN "True" ELSE "False"
    ELSE "False"

---------------------------------------------------------------------------
(* The inputs.                                                             *)

G0 == Text(<<"G", "0">>)

\* "G0 X<x> Y<y> Z<z>"
XYZ(x, y, z) == join(<<G0, Tok("X", x), Tok("Y", y), Tok("Z", z)>>)

Move(text) == [cls |-> "GAbsoluteMove", text |-> text]
Comment(text) == [cls |-> "GCodeComment", text |-> text]
Mode(text) == [cls |-> "GAbsolute", text |-> text]

\* The constructor call GCodeFactory makes for an item on line line_number
Construct(item, line_number) ==
    IF item.cls = "GAbsoluteMove" THEN GAbsoluteMove(line_number, item.text)
    ELSE GCodeCommand(item.cls, line_number, item.text)

\* The commands read from the lines f[1], f[2], ... of a file, the k-th of
\* them (from 0) on line k; made is the command of each item on line 0.
Inputs(f, made) ==
    [k \in 1..Len(f) |-> [made[f[k]] EXCEPT !.line_number = k - 1]]

TheComment == Comment(Text(<<"(", "c", ")">>))
PlungeZ == Move(join(<<G0, Tok("Z", -1)>>))

\* Two texts of one point (the second with its words in another order and
\* a vertical tab, a space and an em space between them), another point, a
\* move with Z only, two comments that differ in how they write one number,
\* and a mode command.
PaletteDup ==
    {Move(XYZ(1, 1, 2)),
     Move(G0 \o <<11>> \o Tok("Y", 1) \o Text(<<" ">>) \o Tok("X", 1)
             \o <<8195>> \o Tok("Z", 2)),
     Move(XYZ(0, 1, 2)), PlungeZ,
     Comment(Parenthesized(Tok("Z", 1))),
     Comment(Parenthesized(Text(<<"Z">>) \o format(1))),
     Mode(Tok("G", 90))}

\* Three points of the X axis, two of the diagonal through the first, a
\* comment.
PaletteRed ==
    {Move(XYZ(0, 0, 0)), Move(XYZ(1, 0, 0)), Move(XYZ(2, 0, 0)),
     Move(XYZ(1, 1, 0)), Move(XYZ(3, 3, 0)), TheComment}

\* Two points above the safe height (one with X = 0), one below it, and
\* a plunge with Z only.
PaletteRep ==
    {Move(XYZ(1, 1, 2)), Move(XYZ(0, 1, 2)), Move(XYZ(2, 1, 0)), PlungeZ}

PaletteOverlap == {Move(XYZ(1, 1, 2)), Move(XYZ(0, 1, 2)), PlungeZ}

PaletteMain == {Move(XYZ(1, 1, 2)), Move(XYZ(0, 1, 2)), PlungeZ, TheComment}

---------------------------------------------------------------------------
(* The state machine.                                                      *)

Start(m, first_pc, palette, n) ==
    /\ mode = m
    /\ LET made == [item \in palette |-> Construct(item, 0)]
       IN  \E len \in 0..n : \E f \in [1..len -> palette] : input = Inputs(f, made)
    /\ commands = input
    /\ pc = first_pc
    /\ err = ""
    /\ i = 0
    /\ duplicate_ranges = {}
    /\ todo = <<>>

\* The pass main() runs after the one that returns, "done" after a pass
\* that was called alone.
After(next_pc) == IF mode = "main" THEN next_pc ELSE "done"

Raise(exception) ==
    /\ pc' = "failed"
    /\ err' = exception
    /\ UNCHANGED <<mode, input, commands, i, duplicate_ranges, todo>>

\* RemoveDuplicates().run(commands)
RemoveDuplicatesRun ==
    /\ pc = "RemoveDuplicates"
    /\ commands' = RemoveDuplicates_run(commands)
    /\ pc' = After("RemoveRedundant")
    /\ UNCHANGED <<mode, input, err, i, duplicate_ranges, todo>>

\* del s[k]
Del(s, k) == Slice(s, 0, k) \o Slice(s, k + 1, Len(s))

\* The guard of RemoveRedundant.run's while loop
RedundantMore == i < Len(commands) - 3

\* What one turn of the loop finds for the window at i: "True" (delete the
\* middle), "False" (advance) or an exception.
RedundantWindow ==
    LET first == At(commands, i)
        middle == At(commands, i + 1)
        last == At(commands, i + 2)
    IN  IF HasAxes(first) /\ HasAxes(middle) /\ HasAxes(last)
        THEN redundant(first, middle, last)
        ELSE "False"

\* One turn of the while loop of RemoveRedundant.run
RedundantIter ==
    /\ pc = "RemoveRedundant"
    /\ RedundantMore
    /\ LET found == RedundantWindow
       IN  IF found = "ZeroDivisionError" THEN Raise("ZeroDivisionError")
           ELSE /\ commands' = IF found = "True" THEN Del(commands, i + 1)
                               ELSE commands
                /\ i' = IF found = "True" THEN i ELSE i + 1
                /\ UNCHANGED <<mode, input, pc, err, duplicate_ranges, todo>>

\* The loop ends and RemoveRedundant.run returns
RedundantReturn ==
    /\ pc = "RemoveRedundant"
    /\ ~RedundantMore
    /\ pc' = After("RemoveRepeat")
    /\ UNCHANGED <<mode, input, commands, err, i, duplicate_ranges, todo>>

---------------------------------------------------------------------------
(* RemoveRepeat.                                                           *)

safe_height == 1

\* bins[command], a list in rising order: the indices of the commands with
\* three coordinates that equal command (none when command has not three
\* coordinates itself: no key of bins equals it).
bins(cs, command) ==
    {j \in 0..(Len(cs) - 1) :
        has_three_points(At(cs, j)) /\ has_three_points(command) /\ Eq(At(cs, j), command)}

\* A set of integers as a rising list
RECURSIVE Rising(_)
Rising(S) ==
    IF S = {} THEN <<>>
    ELSE LET least == CHOOSE a \in S : \A b \in S : a <= b
         IN  <<least>> \o Rising(S \ {least})

\* The while loop that extends a match, from its two cursors on: where the
\* cursors stop, or the IndexError of a read past the end of commands.
RECURSIVE Extend(_, _, _)
Extend(cs, first_subsequence, second_subsequence) ==
    IF first_subsequence >= Len(cs) THEN [err |-> "IndexError"]
    ELSE IF ~has_three_points(At(cs, first_subsequence))
         THEN [err |-> "", first |-> first_subsequence, second |-> second_subsequence]
    ELSE IF second_subsequence >= Len(cs) THEN [err |-> "IndexError"]
    ELSE IF Eq(At(cs, first_subsequence), At(cs, second_subsequence))
         THEN Extend(cs, first_subsequence + 1, second_subsequence + 1)
         ELSE [err |-> "", first |-> first_subsequence, second |-> second_subsequence]

\* The for loop over the later occurrences of commands[i], from the list
\* indices on.  It assigns i, and each later turn starts from the i it finds.
RECURSIVE ForIndex(_, _, _, _)
ForIndex(cs, indices, cursor, ranges) ==
    IF indices = <<>> THEN [err |-> "", i |-> cursor, ranges |-> ranges]
    ELSE LET index == Head(indices)
             stop == Extend(cs, cursor, index)
         IN  IF stop.err # "" THEN [err |-> stop.err]
             ELSE IF (stop.first - 1) - cursor > 0
                  THEN ForIndex(cs, Tail(indices), (stop.first - 1) - 1,
                                ranges \cup {<<index, stop.second - 1>>})
                  ELSE ForIndex(cs, Tail(indices), cursor, ranges)

\* The outer while loop, from cursor i on
RECURSIVE Detect(_, _, _)
Detect(cs, cursor, ranges) ==
    IF cursor >= Len(cs) THEN [err |-> "", ranges |-> ranges]
    ELSE LET later == {j \in bins(cs, At(cs, cursor)) : j > cursor}
             turn == ForIndex(cs, Rising(later), cursor, ranges)
         IN  IF turn.err # "" THEN [err |-> turn.err]
             ELSE Detect(cs, turn.i + 1, turn.ranges)

interval_in(i1, i2) == i1[1] >= i2[1] /\ i1[2] <= i2[2]

interval_merge(intervals) ==
    LET dups == {a \in intervals : \E b \in intervals : b # a /\ interval_in(a, b)}
    IN  intervals \ dups

\* (a1, a2) < (b1, b2) as Python orders tuples
TupleLess(a, b) == a[1] < b[1] \/ (a[1] = b[1] /\ a[2] < b[2])

\* sorted(ranges, reverse=True)
RECURSIVE SortedReverse(_)
SortedReverse(S) ==
    IF S = {} THEN <<>>
    ELSE LET top == CHOOSE a \in S : \A b \in S : b = a \/ TupleLess(b, a)
         IN  <<top>> \o SortedReverse(S \ {top})

\* RemoveRepeat.safe_move; start is not used
safe_move(start, destination) ==
    <<GAbsoluteMove(0, join(<<G0, Text(<<"Z">>) \o format(safe_height)>>)),
      GAbsoluteMove(0, join(<<G0, Text(<<"X">>) \o format(Val(destination.x)),
                              Text(<<"Y">>) \o format(Val(destination.y)),
                              Text(<<"Z">>) \o format(safe_height)>>))>>

\* `assert v`: None and 0.0 are both false
Truthy(v) == v # None /\ Val(v) # 0

\* The exception of safe_move(begin, end), "" when it returns
SafeMoveError(destination) ==
    IF ~HasAxes(destination) THEN "AttributeError"
    ELSE IF ~Truthy(destination.x) \/ ~Truthy(destination.y) THEN "AssertionError"
    ELSE ""

\* The exception of total_distance(points), "" when it returns: distance
\* reads x, y, z of both points (AttributeError on a command without them)
\* and subtracts (TypeError on None).
RECURSIVE TotalDistanceError(_)
TotalDistanceError(points) ==
    IF Len(points) < 2 THEN ""
    ELSE IF ~HasAxes(points[1]) \/ ~HasAxes(points[2]) THEN "AttributeError"
    ELSE IF ~has_three_points(points[1]) \/ ~has_three_points(points[2]) THEN "TypeError"
    ELSE TotalDistanceError(Tail(points))

\* The exception of self.safe_height - c.z
HeightError(c) ==
    IF ~HasAxes(c) THEN "AttributeError"
    ELSE IF c.z = None THEN "TypeError"
    ELSE ""

FirstError(errors) ==
    IF \A k \in 1..Len(errors) : errors[k] = "" THEN ""
    ELSE errors[CHOOSE k \in 1..Len(errors) :
                    errors[k] # "" /\ \A m \in 1..(k - 1) : errors[m] = ""]

\* The exception of one turn of the rewrite loop for dup, "" when none
RewriteError(cs, dup) ==
    FirstError(<<SafeMoveError(At(cs, dup[2])),
                 TotalDistanceError(Slice(cs, dup[1], dup[2])),
                 HeightError(At(cs, dup[1])),
                 HeightError(At(cs, dup[2]))>>)

dup_distance(cs, dup) == total_distance(Slice(cs, dup[1], dup[2]))

safe_distance(cs, dup) ==
    (safe_height - Val(At(cs, dup[1]).z)) + (safe_height - Val(At(cs, dup[2]).z))

\* The condition of the if of the rewrite loop
Profitable(cs, dup) ==
    /\ Greater(dup_distance(cs, dup), safe_distance(cs, dup))
    /\ At(cs, dup[1]).x # None
    /\ At(cs, dup[2]).x # None
    /\ At(cs, dup[1]).x # At(cs, dup[2]).x

\* A slip: the slice taken through the range's last command
RewrittenThroughEnd(cs, dup) ==
    Slice(cs, 0, dup[1])
        \o safe_move(At(cs, dup[1] - 1), At(cs, dup[2]))
        \o to_comments(Slice(cs, dup[1], dup[2] + 1))
        \o Slice(cs, dup[2] + 1, Len(cs))

\* commands[dup[0]:dup[1]] = to_comments(commands[dup[0]:dup[1]]), then
\* commands[dup[0]:dup[0]] = safe_move
Rewritten(cs, dup) ==
    Slice(cs, 0, dup[1])
        \o safe_move(At(cs, dup[1] - 1), At(cs, dup[2]))
        \o to_comments(Slice(cs, dup[1], dup[2]))
        \o Slice(cs, dup[2], Len(cs))

\* RemoveRepeat.run up to the end of its while loop: bins and the ranges
RepeatDetect ==
    /\ pc = "RemoveRepeat"
    /\ IF Detect(commands, 0, {}).err # "" THEN Raise(Detect(commands, 0, {}).err)
       ELSE /\ duplicate_ranges' = Detect(commands, 0, {}).ranges
            /\ pc' = "interval_merge"
            /\ UNCHANGED <<mode, input, commands, err, i, todo>>

\* duplicate_ranges = self.interval_merge(duplicate_ranges), and the sort
\* that the for loop starts with
RepeatMerge ==
    /\ pc = "interval_merge"
    /\ duplicate_ranges' = interval_merge(duplicate_ranges)
    /\ todo' = SortedReverse(interval_merge(duplicate_ranges))
    /\ pc' = "rewrite"
    /\ UNCHANGED <<mode, input, commands, err, i>>

\* One turn of the for loop over the sorted ranges
RepeatRewrite ==
    /\ pc = "rewrite"
    /\ todo # <<>>
    /\ IF RewriteError(commands, Head(todo)) # ""
       THEN Raise(RewriteError(commands, Head(todo)))
       ELSE /\ commands' = IF Profitable(commands, Head(todo))
                           THEN Rewritten(commands, Head(todo))
                           ELSE commands
            /\ todo' = Tail(todo)
            /\ UNCHANGED <<mode, input, pc, err, i, duplicate_ranges>>

\* The for loop ends and RemoveRepeat.run returns
RepeatReturn ==
    /\ pc = "rewrite"
    /\ todo = <<>>
    /\ pc' = "done"
    /\ UNCHANGED <<mode, input, commands, err, i, duplicate_ranges, todo>>

---------------------------------------------------------------------------
(* The specifications: each pass called alone, and main().                 *)

InitDup == Start("RemoveDuplicates", "RemoveDuplicates", PaletteDup, MaxLenDup)
NextDup == RemoveDuplicatesRun
SpecDup == InitDup /\ [][NextDup]_vars

InitRed == Start("RemoveRedundant", "RemoveRedundant", PaletteRed, MaxLenRed)
NextRed == RedundantIter \/ RedundantReturn
SpecRed == InitRed /\ [][NextRed]_vars

InitRep == Start("RemoveRepeat", "RemoveRepeat", PaletteRep, MaxLenRep)
NextRep == RepeatDetect \/ RepeatMerge \/ RepeatRewrite \/ RepeatReturn
SpecRep == InitRep /\ [][NextRep]_vars

InitOverlap == Start("RemoveRepeat", "RemoveRepeat", PaletteOverlap, MaxLenOverlap)
NextOverlap == RepeatDetect \/ RepeatMerge \/ RepeatRewrite \/ RepeatReturn
SpecOverlap == InitOverlap /\ [][NextOverlap]_vars

Init == Start("main", "RemoveDuplicates", PaletteMain, MaxLenMain)
Next ==
    \/ RemoveDuplicatesRun
    \/ RedundantIter
    \/ RedundantReturn
    \/ RepeatDetect
    \/ RepeatMerge
    \/ RepeatRewrite
    \/ RepeatReturn
Spec == Init /\ [][Next]_vars

---------------------------------------------------------------------------
(* Vocabulary of the properties.                                           *)

Done(m) == mode = m /\ pc = "done"

SameTriple(a, b) == a.x = b.x /\ a.y = b.y /\ a.z = b.z

\* b - a and c - b as integer vectors, for commands with three coordinates
Vec(a, b) == <<Val(b.x) - Val(a.x), Val(b.y) - Val(a.y), Val(b.z) - Val(a.z)>>
Dot(u, v) == u[1] * v[1] + u[2] * v[2] + u[3] * v[3]
Parallel(u, v) ==
    /\ u[2] * v[3] = u[3] * v[2]
    /\ u[3] * v[1] = u[1] * v[3]
    /\ u[1] * v[2] = u[2] * v[1]

\* b lies strictly between a and c on the straight line through them
Between(a, b, c) ==
    Parallel(Vec(a, b), Vec(b, c)) /\ Dot(Vec(a, b), Vec(b, c)) > 0

\* b lies on the closed segment from a to c
OnSegment(a, b, c) == SameTriple(a, b) \/ SameTriple(b, c) \/ Between(a, b, c)

\* The k-th command (from 0) of cs is a comment that wraps command c
Wraps(cs, k, c) ==
    /\ At(cs, k).kind = "GCodeComment"
    /\ At(cs, k).text = Parenthesized(c.text)
    /\ At(cs, k).line_number = c.line_number

\* The turn of the rewrite loop that is taken rewrites its range
Rewrites == pc = "rewrite" /\ todo # <<>> /\ commands' # commands

\* The two commands at start and start + 1 of after are the safe moves
\* to the end command of the range: up to the safe height, then over end.
SafeMovesAt(after, start, end) ==
    /\ has_three_points(At(after, start + 1))
    /\ HasAxes(At(after, start)) /\ At(after, start).x = None /\ At(after, start).y = None
    /\ At(after, start).z = Some(safe_height)
    /\ At(after, start + 1).x = end.x
    /\ At(after, start + 1).y = end.y
    /\ At(after, start + 1).z = Some(safe_height)

---------------------------------------------------------------------------
(* C1.  When RemoveRepeat.run completes, every (x, y, z) of a move of the  *)
(* input with three coordinates is still the (x, y, z) of a move of the    *)
(* output that is not a comment, and the first occurrence of every point   *)
(* is itself still in the output, unwrapped.                               *)
C1_EveryPointStillVisited ==
    Done("RemoveRepeat") =>
        \A k \in 1..Len(input) :
            has_three_points(input[k]) =>
                /\ \E m \in 1..Len(commands) :
                       has_three_points(commands[m]) /\ SameTriple(commands[m], input[k])
                /\ (\A j \in 1..(k - 1) :
                        ~(has_three_points(input[j]) /\ SameTriple(input[j], input[k])))
                   => \E m \in 1..Len(commands) : commands[m] = input[k]

\* A run that completed and commented a repeated move out
C1_Witness ==
    /\ Done("RemoveRepeat")
    /\ \E m \in 1..Len(commands), k \in 1..Len(input) :
           has_three_points(input[k]) /\ Wraps(commands, m - 1, input[k])

---------------------------------------------------------------------------
(* C2.  Of three consecutive moves A, B, C with three coordinates in the   *)
(* input of RemoveRedundant.run, B strictly between A and C on their line, *)
(* B is not in the output, wherever the three stand in the input.          *)
C2_MiddleRemoved ==
    Done("RemoveRedundant") =>
        \A k \in 1..(Len(input) - 2) :
            ( /\ has_three_points(input[k])
              /\ has_three_points(input[k + 1])
              /\ has_three_points(input[k + 2])
              /\ Between(input[k], input[k + 1], input[k + 2]) )
            => \A m \in 1..Len(commands) : commands[m] # input[k + 1]

---------------------------------------------------------------------------
(* C3, as claimed.  A turn of the rewrite loop that rewrites the range     *)
(* (start, end) leaves the commands before start, puts the two safe moves  *)
(* at start, wraps every command from start through end as a comment with  *)
(* its text and line number, and leaves the commands after end.            *)
C3_WrapsThroughEnd ==
    [][Rewrites =>
        LET start == Head(todo)[1]
            end == Head(todo)[2]
        IN  /\ Len(commands') = Len(commands) + 2
            /\ \A k \in 0..(start - 1) : At(commands', k) = At(commands, k)
            /\ SafeMovesAt(commands', start, At(commands, end))
            /\ \A k \in start..end : Wraps(commands', k + 2, At(commands, k))
            /\ \A k \in (end + 1)..(Len(commands) - 1) :
                   At(commands', k + 2) = At(commands, k)]_vars

(* C3, amended.  The same, but the commands wrapped are those from start   *)
(* through end - 1: the command at end is left as it is, after the         *)
(* comments.                                                               *)
C3_WrapsUpToEnd ==
    [][Rewrites =>
        LET start == Head(todo)[1]
            end == Head(todo)[2]
        IN  /\ Len(commands') = Len(commands) + 2
            /\ \A k \in 0..(start - 1) : At(commands', k) = At(commands, k)
            /\ SafeMovesAt(commands', start, At(commands, end))
            /\ \A k \in start..(end - 1) : Wraps(commands', k + 2, At(commands, k))
            /\ \A k \in end..(Len(commands) - 1) :
                   At(commands', k + 2) = At(commands, k)]_vars

\* A run that rewrote a range: two safe moves and a wrapped move, the
\* range's last move still a move behind them.
C3_Witness ==
    /\ Done("RemoveRepeat")
    /\ \E r \in duplicate_ranges :
           /\ Len(commands) >= Len(input) + 2
           /\ r[2] + 2 < Len(commands)
           /\ Wraps(commands, r[1] + 2, At(input, r[1]))
           /\ At(commands, r[2] + 2) = At(input, r[2])

---------------------------------------------------------------------------
(* C4.  A range is rewritten only if the path length of its commands,      *)
(* start through end, exceeds (safe_height - begin.z) + (safe_height -     *)
(* end.z), begin the command before start, and the X of the commands at    *)
(* start and end differ.  Stated for the turns where begin has a Z and     *)
(* the range's commands have three coordinates.                            *)
C4_RewrittenOnlyIfProfitable ==
    [][(/\ Rewrites
        /\ HasAxes(At(commands, Head(todo)[1] - 1))
        /\ At(commands, Head(todo)[1] - 1).z # None
        /\ \A k \in Head(todo)[1]..Head(todo)[2] : has_three_points(At(commands, k)))
       =>
        LET start == Head(todo)[1]
            end == Head(todo)[2]
            begin == At(commands, start - 1)
            path == total_distance(Slice(commands, start, end + 1))
            safe == (safe_height - Val(begin.z)) + (safe_height - Val(At(commands, end).z))
        IN  /\ Greater(path, safe)
            /\ At(commands, start).x # At(commands, end).x]_vars

---------------------------------------------------------------------------
(* C5.  RemoveDuplicates.run returns the commands of its input, in order,  *)
(* that are the first or differ from the command before them in the input; *)
(* no two neighbours of the output are equal; nothing gives nothing.       *)
C5_ExactlyAdjacentDuplicatesDropped ==
    Done("RemoveDuplicates") =>
        LET kept == {k \in 1..Len(input) : k = 1 \/ ~Eq(input[k - 1], input[k])}
        IN  /\ Len(commands) = Cardinality(kept)
            /\ \A m \in 1..Len(commands) :
                   /\ commands[m].line_number + 1 \in kept
                   /\ commands[m] = input[commands[m].line_number + 1]
            /\ \A m \in 1..(Len(commands) - 1) :
                   /\ commands[m].line_number < commands[m + 1].line_number
                   /\ ~Eq(commands[m], commands[m + 1])
            /\ (input = <<>> => commands = <<>>)

\* A run that dropped a move equal in (x, y, z) and different in text to
\* the move before it, and kept an equal command that is not its neighbour.
C5_Witness ==
    /\ Done("RemoveDuplicates")
    /\ \E k \in 2..Len(input) :
           /\ Eq(input[k - 1], input[k])
           /\ input[k - 1].text # input[k].text
    /\ \E m, n \in 1..Len(commands) : m + 1 < n /\ Eq(commands[m], commands[n])

---------------------------------------------------------------------------
(* C6.  The assertion of safe_move fails only on a destination without an  *)
(* X or without a Y.                                                       *)
C6_AssertionOnlyWithoutXY ==
    (mode = "RemoveRepeat" /\ err = "AssertionError") =>
        LET destination == At(commands, Head(todo)[2])
        IN  destination.x = None \/ destination.y = None

---------------------------------------------------------------------------
(* C7.  RemoveRedundant.run deletes the middle move of its window only     *)
(* when it lies on the closed segment between the window's first and last  *)
(* moves.                                                                  *)
C7_DeletedOnlyOnSegment ==
    [][(pc = "RemoveRedundant" /\ Len(commands') < Len(commands)) =>
        OnSegment(At(commands, i), At(commands, i + 1), At(commands, i + 2))]_vars

---------------------------------------------------------------------------
(* C8.  A turn of the rewrite loop leaves, for every range still to be     *)
(* handled, the commands at start - 1 .. end as they were.                 *)
C8_LaterRangesUntouched ==
    [][(pc = "rewrite" /\ todo # <<>>) =>
        \A n \in 1..Len(todo') :
            Slice(commands', todo'[n][1] - 1, todo'[n][2] + 1)
                = Slice(commands, todo'[n][1] - 1, todo'[n][2] + 1)]_vars

---------------------------------------------------------------------------
(* C9.  The loop that extends a match never reads commands past the end:   *)
(* RemoveRepeat.run raises no IndexError.                                  *)
C9_CursorsInside == mode = "RemoveRepeat" => err # "IndexError"

---------------------------------------------------------------------------
(* C10.  In main(), on what RemoveDuplicates.run returns, RemoveRedundant  *)
(* never divides by a distance of zero.                                    *)
C10_NoDivisionByZero == mode = "main" => err # "ZeroDivisionError"

=============================================================================
